---- MODULE Spec2Model ----
(***************************************************************************)
(* Model of src/server.py: TrackingHandler, an HTTP handler that accepts   *)
(* analytics events over POST, normalizes them into a batch record,        *)
(* formats the batch as a text block and appends it to tracking_events.txt.*)
(*                                                                         *)
(* Text (str, file contents) is a sequence of atoms.  An atom is a TLA+    *)
(* string standing for a run of characters that neither the code nor the   *)
(* model's inputs ever split; the line break is the atom NL.               *)
(* A Python value x is the pair <<type, payload>>: x[1] names its type and  *)
(* x[2] is its payload; a dict's payload is the sequence of its            *)
(* <<key, value>> items in insertion order.                                *)
(***************************************************************************)
EXTENDS Integers, Sequences, FiniteSets, TLC

VARIABLES
    log,        \* contents of tracking_events.txt
    request,    \* the request handled last
    response,   \* the response sent for it (status 0: none was sent)
    escaped,    \* the exception that left the handler, or "None"
    log_entry,  \* the log_entry dict built by the request handled last
    handled,    \* number of requests handled so far (the wall clock)
    arg,        \* function-level specifications: the argument
    ret         \* function-level specifications: the value returned

vars == <<log, request, response, escaped, log_entry, handled, arg, ret>>

(***************************************************************************)
(* Bounds of the model.                                                    *)
(***************************************************************************)
MaxRequests == 2
MaxEvents == 2

(***************************************************************************)
(* Python values.                                                          *)
(***************************************************************************)
NL == "\n"

None == <<"NoneType", <<>>>>
Bool(b) == <<"bool", b>>
PyInt(n) == <<"int", n>>
NaN == <<"float", <<"nan">>>>
Str(s) == <<"str", s>>
List(xs) == <<"list", xs>>
Dict(items) == <<"dict", items>>

\* type(x).__name__
TypeOf(x) == x[1]

\* The outcome of evaluating an expression: a value, or a raised exception.
Value(x) == [exc |-> "None", val |-> x]
Raise(e) == [exc |-> e, val |-> None]

\* bool(v)
Truthy(v) ==
    CASE TypeOf(v) = "NoneType" -> FALSE
      [] TypeOf(v) = "bool" -> v[2]
      [] TypeOf(v) = "int" -> v[2] # 0
      [] TypeOf(v) = "float" -> TRUE
      [] OTHER -> Len(v[2]) > 0

\* key in d, for a dict d
HasKey(d, key) == \E i \in 1..Len(d[2]) : d[2][i][1] = key

\* d[key], for a dict d that has the key
Item(d, key) == d[2][CHOOSE i \in 1..Len(d[2]) : d[2][i][1] = key][2]

\* d.get(key, default), for a dict d
Get(d, key, default) == IF HasKey(d, key) THEN Item(d, key) ELSE default

\* x.get(key, default) for any x: only a dict has the attribute get
DotGet(x, key, default) ==
    IF TypeOf(x) = "dict" THEN Value(Get(x, key, default)) ELSE Raise("AttributeError")

\* word in x, for a str word of one atom
In(word, x) ==
    CASE TypeOf(x) = "dict" -> Value(Bool(HasKey(x, word)))
      [] TypeOf(x) = "list" -> Value(Bool(\E i \in 1..Len(x[2]) : x[2][i] = Str(<<word>>)))
      [] TypeOf(x) = "str" -> Value(Bool(\E i \in 1..Len(x[2]) : x[2][i] = word))
      [] OTHER -> Raise("TypeError")

\* x[0]
First(x) ==
    CASE TypeOf(x) = "list" -> IF Len(x[2]) > 0 THEN Value(x[2][1]) ELSE Raise("IndexError")
      [] TypeOf(x) = "str" -> IF Len(x[2]) > 0 THEN Value(Str(<<x[2][1]>>)) ELSE Raise("IndexError")
      [] TypeOf(x) = "dict" -> Raise("KeyError")
      [] OTHER -> Raise("TypeError")

\* len(x)
PyLen(x) ==
    IF TypeOf(x) \in {"list", "str", "dict"} THEN Value(PyInt(Len(x[2]))) ELSE Raise("TypeError")

\* the elements a for loop over x visits, for x with a len
Elements(x) ==
    CASE TypeOf(x) = "list" -> x[2]
      [] TypeOf(x) = "str" -> [i \in 1..Len(x[2]) |-> Str(<<x[2][i]>>)]
      [] TypeOf(x) = "dict" -> [i \in 1..Len(x[2]) |-> Str(<<x[2][i][1]>>)]
      [] OTHER -> <<>>

(***************************************************************************)
(* do_POST, lines 24-38: the normalizer.  The outcome is the triple        *)
(* (events, session_id, user_id) or the exception raised.                  *)
(***************************************************************************)
Triple(events, session_id, user_id) ==
    [exc |-> "None", events |-> events, session_id |-> session_id, user_id |-> user_id]

Failed(e) == [exc |-> e, events |-> None, session_id |-> None, user_id |-> None]

\* as FirstId, reading the last element instead of the first
FirstIdOfLast(events, key) ==
    IF ~Truthy(events) THEN Value(Str(<<"unknown">>))
    ELSE IF First(events).exc # "None" THEN Raise(First(events).exc)
    ELSE DotGet(Elements(events)[Len(Elements(events))], key, None)

\* events[0].get(key) if events else 'unknown'
FirstId(events, key) ==
    IF ~Truthy(events) THEN Value(Str(<<"unknown">>))
    ELSE IF First(events).exc # "None" THEN Raise(First(events).exc)
    ELSE DotGet(First(events).val, key, None)

BatchBranch(data) ==
    LET events == Get(data, "events", List(<<>>))
        session_id == FirstId(events, "sessionId")
        user_id == FirstId(events, "userId")
    IN  IF session_id.exc # "None" THEN Failed(session_id.exc)
        ELSE IF user_id.exc # "None" THEN Failed(user_id.exc)
        ELSE Triple(events, session_id.val, user_id.val)

TestBranch(data) ==
    Triple(List(<<data>>), Str(<<"test_session">>), Str(<<"test_user">>))

FallbackBranch(data) ==
    LET session_id == DotGet(data, "sessionId", Str(<<"unknown">>))
        user_id == DotGet(data, "userId", Str(<<"unknown">>))
    IN  IF session_id.exc # "None" THEN Failed(session_id.exc)
        ELSE Triple(List(<<data>>), session_id.val, user_id.val)

\* as Branch, with the test for type ahead of the test for events
BranchTypeFirst(data) ==
    LET hasEvents == In("events", data)
        hasType == In("type", data)
    IN  IF hasType.exc # "None" THEN hasType.exc
        ELSE IF hasType.val[2] THEN "test"
        ELSE IF hasEvents.val[2] THEN "batch"
        ELSE "fallback"

\* which branch of the if/elif/else runs, or the exception its tests raise
Branch(data) ==
    LET hasEvents == In("events", data)
        hasType == In("type", data)
    IN  IF hasEvents.exc # "None" THEN hasEvents.exc
        ELSE IF hasEvents.val[2] THEN "batch"
        ELSE IF hasType.val[2] THEN "test"
        ELSE "fallback"

Normalize(data) ==
    CASE Branch(data) = "batch" -> IF TypeOf(data) = "dict" THEN BatchBranch(data)
                                   ELSE Failed("AttributeError")
      [] Branch(data) = "test" -> TestBranch(data)
      [] Branch(data) = "fallback" -> FallbackBranch(data)
      [] OTHER -> Failed(Branch(data))

(***************************************************************************)
(* Text rendering: str(), repr() and json.dumps(..., indent=6).            *)
(***************************************************************************)
RECURSIVE Concat(_)
Concat(seqs) == IF seqs = <<>> THEN <<>> ELSE Head(seqs) \o Concat(Tail(seqs))

\* sep.join(parts)
RECURSIVE Join(_, _)
Join(parts, sep) ==
    IF parts = <<>> THEN <<>>
    ELSE IF Len(parts) = 1 THEN parts[1]
    ELSE parts[1] \o sep \o Join(Tail(parts), sep)

\* c * n
Repeat(c, n) == [i \in 1..n |-> c]

Digit(d) ==
    CASE d = 0 -> "0" [] d = 1 -> "1" [] d = 2 -> "2" [] d = 3 -> "3" [] d = 4 -> "4"
      [] d = 5 -> "5" [] d = 6 -> "6" [] d = 7 -> "7" [] d = 8 -> "8" [] d = 9 -> "9"

\* str(n), for an int n >= 0
RECURSIVE IntStr(_)
IntStr(n) == IF n < 10 THEN <<Digit(n)>> ELSE IntStr(n \div 10) \o <<Digit(n % 10)>>

\* the escapes repr() and json.dumps() apply inside a string literal
Escaped(s) == [i \in 1..Len(s) |-> IF s[i] = NL THEN "\\n" ELSE s[i]]

\* repr(v)
RECURSIVE PyRepr(_)
PyRepr(v) ==
    CASE TypeOf(v) = "NoneType" -> <<"None">>
      [] TypeOf(v) = "bool" -> IF v[2] THEN <<"True">> ELSE <<"False">>
      [] TypeOf(v) = "int" -> IntStr(v[2])
      [] TypeOf(v) = "float" -> v[2]
      [] TypeOf(v) = "str" -> <<"'">> \o Escaped(v[2]) \o <<"'">>
      [] TypeOf(v) = "list" ->
            <<"[">> \o Join([i \in 1..Len(v[2]) |-> PyRepr(v[2][i])], <<", ">>) \o <<"]">>
      [] TypeOf(v) = "dict" ->
            <<"{">> \o Join([i \in 1..Len(v[2]) |->
                               <<"'", v[2][i][1], "'", ": ">> \o PyRepr(v[2][i][2])],
                            <<", ">>) \o <<"}">>

\* str(v), what an f-string field {v} renders
PyStr(v) == IF TypeOf(v) = "str" THEN v[2] ELSE PyRepr(v)

JsonIndent == 6

\* json.dumps(v, indent=JsonIndent), at nesting depth level
RECURSIVE JsonDumps(_, _)
JsonDumps(v, level) ==
    LET pad(l) == Repeat(" ", JsonIndent * l)
        items(rendered) ==
            <<NL>> \o pad(level + 1)
                \o Join(rendered, <<",", NL>> \o pad(level + 1))
                \o <<NL>> \o pad(level)
    IN  CASE TypeOf(v) = "NoneType" -> <<"null">>
          [] TypeOf(v) = "bool" -> IF v[2] THEN <<"true">> ELSE <<"false">>
          [] TypeOf(v) = "int" -> IntStr(v[2])
          [] TypeOf(v) = "float" -> <<"NaN">>
          [] TypeOf(v) = "str" -> <<"\"">> \o Escaped(v[2]) \o <<"\"">>
          [] TypeOf(v) = "list" ->
                IF v[2] = <<>> THEN <<"[]">>
                ELSE <<"[">>
                       \o items([i \in 1..Len(v[2]) |-> JsonDumps(v[2][i], level + 1)])
                       \o <<"]">>
          [] TypeOf(v) = "dict" ->
                IF v[2] = <<>> THEN <<"{}">>
                ELSE <<"{">>
                       \o items([i \in 1..Len(v[2]) |->
                                   <<"\"", v[2][i][1], "\"", ": ">>
                                       \o JsonDumps(v[2][i][2], level + 1)])
                       \o <<"}">>

(***************************************************************************)
(* format_log_entry, lines 104-142.                                        *)
(***************************************************************************)
RuleWidth == 80
DashWidth == 40

\* event.get('eventType') or event.get('type', 'unknown')
EventTypeOf(event) ==
    IF Truthy(Get(event, "eventType", None)) THEN Get(event, "eventType", None)
    ELSE Get(event, "type", Str(<<"unknown">>))

\* event.get('data', event.get('message', 'no data'))
EventDataOf(event) == Get(event, "data", Get(event, "message", Str(<<"no data">>)))

\* the lines the loop body appends for event number i
EventLines(i, event) ==
    LET event_type == EventTypeOf(event)
        event_data == EventDataOf(event)
        event_timestamp == Get(event, "timestamp", Str(<<"unknown">>))
        event_url == Get(event, "url", Str(<<"unknown">>))
    IN  << <<"EVENT_">> \o IntStr(i) \o <<":">>,
           <<"  Type: ">> \o PyStr(event_type),
           <<"  Timestamp: ">> \o PyStr(event_timestamp),
           <<"  URL: ">> \o PyStr(event_url),
           IF TypeOf(event_data) = "dict"
           THEN <<"  Data: ">> \o JsonDumps(event_data, 0)
           ELSE <<"  Data: ">> \o PyStr(event_data),
           <<>> >>

HeaderLines(timestamp, session_id, user_id, count) ==
    << Repeat("=", RuleWidth),
       <<"BATCH_TIMESTAMP: ">> \o PyStr(timestamp),
       <<"SESSION_ID: ">> \o PyStr(session_id),
       <<"USER_ID: ">> \o PyStr(user_id),
       <<"TOTAL_EVENTS: ">> \o PyStr(count),
       Repeat("-", DashWidth) >>

FooterLines == << Repeat("=", RuleWidth), <<>> >>

format_log_entry(entry) ==
    LET timestamp == Get(entry, "timestamp", Str(<<"Unknown">>))
        session_id == Get(entry, "sessionId", Str(<<"Unknown">>))
        user_id == Get(entry, "userId", Str(<<"Unknown">>))
        events == Get(entry, "events", List(<<>>))
        elems == Elements(events)
    IN  IF PyLen(events).exc # "None" THEN Raise(PyLen(events).exc)
        ELSE IF \E i \in 1..Len(elems) : TypeOf(elems[i]) # "dict" THEN Raise("AttributeError")
        ELSE Value(Str(Join(
                HeaderLines(timestamp, session_id, user_id, PyLen(events).val)
                    \o Concat([i \in 1..Len(elems) |-> EventLines(i, elems[i])])
                    \o FooterLines,
                <<NL>>)))

(***************************************************************************)
(* save_tracking_data, lines 87-102.  file is the log file's contents and  *)
(* io_ok says whether open(log_file, 'a') and the write succeed; an I/O    *)
(* error leaves the file as it was.  Every exception is caught at line 101,*)
(* so the call itself never raises.                                        *)
(***************************************************************************)
Saved(file) == [exc |-> "None", file |-> file]

\* as save_tracking_data, with the file opened in mode 'w'
SaveTruncating(entry, io_ok, file) ==
    LET log_text == format_log_entry(entry)
    IN  IF log_text.exc # "None" THEN Saved(file)
        ELSE IF ~io_ok THEN Saved(file)
        ELSE Saved(log_text.val[2] \o <<NL>>)

\* as save_tracking_data, without the except clause of line 101
SaveRaising(entry, io_ok, file) ==
    LET log_text == format_log_entry(entry)
    IN  IF log_text.exc # "None" THEN [exc |-> log_text.exc, file |-> file]
        ELSE IF ~io_ok THEN [exc |-> "OSError", file |-> file]
        ELSE Saved(file \o log_text.val[2] \o <<NL>>)

save_tracking_data(entry, io_ok, file) ==
    LET log_text == format_log_entry(entry)
    IN  IF log_text.exc # "None" THEN Saved(file)
        ELSE IF ~io_ok THEN Saved(file)
        ELSE Saved(file \o log_text.val[2] \o <<NL>>)

(***************************************************************************)
(* Responses.  send_error is http.server's: status line, Connection and    *)
(* Content-Type headers and an HTML page; the handler has no chance to add *)
(* a header of its own to it.  The Server and Date headers that            *)
(* send_response puts on every response are left out.                      *)
(***************************************************************************)
NoResponse == [status |-> 0, headers |-> {}, body |-> <<>>]

send_error(code, message) ==
    [status |-> code,
     headers |-> {<<"Connection", "close">>, <<"Content-Type", "text/html;charset=utf-8">>},
     body |-> <<"<html>", "Error response", message, "</html>">>]

\* json.dumps(v), without indent
RECURSIVE JsonDumpsFlat(_)
JsonDumpsFlat(v) ==
    CASE TypeOf(v) = "NoneType" -> <<"null">>
      [] TypeOf(v) = "bool" -> IF v[2] THEN <<"true">> ELSE <<"false">>
      [] TypeOf(v) = "int" -> IntStr(v[2])
      [] TypeOf(v) = "float" -> <<"NaN">>
      [] TypeOf(v) = "str" -> <<"\"">> \o Escaped(v[2]) \o <<"\"">>
      [] TypeOf(v) = "list" ->
            <<"[">> \o Join([i \in 1..Len(v[2]) |-> JsonDumpsFlat(v[2][i])], <<", ">>) \o <<"]">>
      [] TypeOf(v) = "dict" ->
            <<"{">> \o Join([i \in 1..Len(v[2]) |->
                               <<"\"", v[2][i][1], "\"", ": ">> \o JsonDumpsFlat(v[2][i][2])],
                            <<", ">>) \o <<"}">>

\* lines 63-69
SuccessResponse(count) ==
    [status |-> 200,
     headers |-> {<<"Content-type", "application/json">>,
                  <<"Access-Control-Allow-Origin", "*">>},
     body |-> JsonDumpsFlat(Dict(<<
                 <<"status", Str(<<"success">>)>>,
                 <<"message", Str(<<"Successfully logged ">> \o PyStr(count)
                                     \o <<" events">>)>> >>))]

\* as Except, with every exception answered as a decode failure
ExceptAllBadRequest(exc) == send_error(400, "Invalid JSON")

\* lines 71-75: the except clauses
Except(exc) ==
    IF exc = "JSONDecodeError" THEN send_error(400, "Invalid JSON")
    ELSE send_error(500, "Internal server error")

(***************************************************************************)
(* do_POST, lines 15-77.                                                   *)
(***************************************************************************)
TrackingPaths == {"/api/analytics/events", "/analytics"}

\* line 18: int(self.headers['Content-Length']).  With a numeric header the
\* request's body is what rfile.read(content_length) returns.
ContentLength(header) ==
    CASE header = "absent" -> Raise("TypeError")
      [] header = "nonnumeric" -> Raise("ValueError")
      [] OTHER -> Value(None)

\* line 22: json.loads(post_data.decode('utf-8')).  The body read is bytes that
\* are not UTF-8 ("binary"), text json.loads rejects ("text"), the text of a JSON
\* value ("json") or text outside JSON that json.loads accepts, such as NaN
\* ("lenient").
Loads(body) ==
    CASE body.kind = "binary" -> Raise("UnicodeDecodeError")
      [] body.kind = "text" -> Raise("JSONDecodeError")
      [] OTHER -> Value(body.val)

\* datetime.datetime.now().isoformat()
Now(clock) == Str(<<"T">> \o IntStr(clock))

\* lines 42-47
LogEntry(timestamp, norm) ==
    Dict(<< <<"timestamp", timestamp>>, <<"sessionId", norm.session_id>>,
            <<"userId", norm.user_id>>, <<"events", norm.events>> >>)

\* lines 53-60: the console prints; what matters is the exception they raise
ConsolePrints(events) ==
    IF PyLen(events).exc # "None" THEN Raise(PyLen(events).exc)
    ELSE IF \E i \in 1..Len(Elements(events)) : TypeOf(Elements(events)[i]) # "dict"
         THEN Raise("AttributeError")
    ELSE Value(None)

Outcome(file, resp, exc, entry) ==
    [log |-> file, response |-> resp, escaped |-> exc, log_entry |-> entry]

\* lines 21-75: the try statement
TryBlock(req, file, clock) ==
    LET data == Loads(req.body)
        norm == Normalize(data.val)
        entry == LogEntry(Now(clock), norm)
        saved == save_tracking_data(entry, req.io_ok, file)
        prints == ConsolePrints(norm.events)
    IN  IF data.exc # "None" THEN Outcome(file, Except(data.exc), "None", None)
        ELSE IF norm.exc # "None" THEN Outcome(file, Except(norm.exc), "None", None)
        ELSE IF saved.exc # "None" THEN Outcome(saved.file, Except(saved.exc), "None", entry)
        ELSE IF prints.exc # "None"
             THEN Outcome(saved.file, Except(prints.exc), "None", entry)
        ELSE Outcome(saved.file, SuccessResponse(PyLen(norm.events).val), "None", entry)

\* as Post, without the test of the path
PostAnyPath(req, file, clock) ==
    IF ContentLength(req.content_length).exc # "None"
    THEN Outcome(file, NoResponse, ContentLength(req.content_length).exc, None)
    ELSE TryBlock(req, file, clock)

Post(req, file, clock) ==
    IF req.path \in TrackingPaths
    THEN IF ContentLength(req.content_length).exc # "None"
         THEN Outcome(file, NoResponse, ContentLength(req.content_length).exc, None)
         ELSE TryBlock(req, file, clock)
    ELSE Outcome(file, send_error(404, "Endpoint not found"), "None", None)

\* lines 79-85
OptionsResponse ==
    [status |-> 200,
     headers |-> {<<"Access-Control-Allow-Origin", "*">>,
                  <<"Access-Control-Allow-Methods", "POST, GET, OPTIONS">>,
                  <<"Access-Control-Allow-Headers", "Content-Type">>},
     body |-> <<>>]

(***************************************************************************)
(* Inputs.                                                                 *)
(***************************************************************************)
\* a dict item that may be absent: the item sequences for key over vals
Opt(key, vals) == {<<>>} \cup {<< <<key, v>> >> : v \in vals}

\* the sequences over S of length at most n
SeqsUpTo(S, n) == UNION {[1..k -> S] : k \in 0..n}

\* a client string with a line break in it, followed by the text of a header
Inject == <<"x", NL, "EVENT_", "2", ":">>

\* events as clients send them inside a batch
EventS == Dict(<< <<"sessionId", Str(<<"S">>)>>, <<"userId", Str(<<"U">>)>>,
                  <<"eventType", Str(<<"view">>)>>,
                  <<"data", Dict(<< <<"page", Str(<<"/home">>)>> >>)>> >>)
EventT == Dict(<< <<"sessionId", Str(<<"T">>)>>, <<"type", Str(<<"click">>)>>,
                  <<"message", Str(<<"m">>)>> >>)

\* values found under the key events
EventsValues ==
    {List(xs) : xs \in SeqsUpTo({EventS, EventT, Dict(<<>>), PyInt(5)}, MaxEvents)}
        \cup {None, Str(<<>>), Str(<<"a", "b">>), Dict(<<>>), EventT, PyInt(0), PyInt(5),
              Bool(FALSE)}

\* decoded request bodies handed to the normalizer
NormalizeInputs ==
    {Dict(e \o t \o s \o u \o f) :
        e \in Opt("events", EventsValues),
        t \in Opt("type", {Str(<<"click">>)}),
        s \in Opt("sessionId", {Str(<<"P">>), None}),
        u \in Opt("userId", {Str(<<"Q">>)}),
        f \in Opt("foo", {Str(<<"bar">>)})}
    \cup {List(<<>>), List(<<PyInt(1)>>), List(<<Str(<<"events">>)>>),
          List(<<Str(<<"type">>)>>), Str(<<"abc">>), Str(<<"events">>), Str(<<"type">>),
          PyInt(5), Bool(TRUE), None, NaN}

\* events handed to the formatter, one per batch
FormatEvents ==
    {Dict(a \o b \o c \o d \o e \o g) :
        a \in Opt("eventType", {Str(<<>>), Str(<<"view">>)}),
        b \in Opt("type", {Str(<<"click">>), Str(Inject)}),
        c \in Opt("data", {Str(<<"d">>), None, PyInt(7), NaN,
                           List(<<PyInt(1), Str(<<"x", NL, "y">>)>>),
                           Dict(<<>>),
                           Dict(<< <<"page", Str(<<"/home", NL, "EVENT_", "2", ":">>)>>,
                                   <<"tags", List(<<Str(<<"a">>), Bool(TRUE)>>)>> >>)}),
        d \in Opt("message", {Str(<<"m">>)}),
        e \in Opt("timestamp", {Str(<<"t1">>)}),
        g \in Opt("url", {Str(<<"/p">>)})}

FormatInputs ==
    {Dict(<< <<"timestamp", Now(0)>> >> \o s
             \o << <<"userId", Str(<<"U">>)>>, <<"events", List(xs)>> >>) :
        s \in Opt("sessionId", {Str(<<"S">>), None}),
        xs \in SeqsUpTo({EventS, EventT, Dict(<<>>)}, MaxEvents)
                 \cup {<<ev>> : ev \in FormatEvents}}

\* request bodies as rfile.read returns them
Json(v) == [kind |-> "json", val |-> v]
NotUtf8 == [kind |-> "binary", val |-> None]
NotJson == [kind |-> "text", val |-> None]
Lenient(v) == [kind |-> "lenient", val |-> v]

Bodies ==
    {Json(Dict(<< <<"events", List(xs)>> >>)) : xs \in SeqsUpTo({EventS, EventT}, MaxEvents)}
    \cup {Json(v) : v \in
            {Dict(<< <<"events", List(<<EventT>>)>>, <<"type", Str(<<"click">>)>> >>),
             Dict(<< <<"events", List(<<EventS, PyInt(5)>>)>> >>),
             Dict(<< <<"events", None>> >>),
             Dict(<< <<"events", Dict(<<>>)>> >>),
             Dict(<< <<"type", Str(<<"page_view">>)>>, <<"sessionId", Str(<<"P">>)>>,
                     <<"data", Dict(<< <<"page", Str(<<"/home">>)>> >>)>> >>),
             Dict(<< <<"type", Str(Inject)>> >>),
             Dict(<< <<"foo", Str(<<"bar">>)>> >>),
             Dict(<< <<"sessionId", Str(<<"P">>)>>, <<"userId", Str(<<"Q">>)>> >>),
             List(<<>>), List(<<Str(<<"type">>)>>), Str(<<"events">>), PyInt(5),
             Bool(TRUE), None}}
    \cup {NotUtf8, NotJson, Lenient(NaN), Lenient(Dict(<< <<"a", NaN>> >>))}

Request(method, path, content_length, body, io_ok) ==
    [method |-> method, path |-> path, content_length |-> content_length,
     body |-> body, io_ok |-> io_ok]

NoRequest == Request("", "", "absent", NotJson, TRUE)

PostRequests ==
    {Request("POST", "/analytics", "numeric", b, io) : b \in Bodies, io \in BOOLEAN}
    \cup {Request("POST", "/api/analytics/events", "numeric", b, TRUE) :
            b \in {Json(Dict(<< <<"events", List(<<EventS>>)>> >>)), NotJson}}
    \cup {Request("POST", "/analytics", h, b, TRUE) :
            h \in {"absent", "nonnumeric"},
            b \in {Json(Dict(<< <<"foo", Str(<<"bar">>)>> >>)), NotJson}}
    \cup {Request("POST", p, h, b, TRUE) :
            p \in {"/unknown-path", "/analytics/", "/"},
            h \in {"numeric", "absent"},
            b \in {Json(Dict(<< <<"type", Str(<<"page_view">>)>> >>)), NotJson}}

OptionsRequests ==
    {Request("OPTIONS", p, "absent", NotJson, TRUE) : p \in {"/analytics", "/unknown-path"}}

(***************************************************************************)
(* The server: socketserver.TCPServer handles one request at a time.       *)
(***************************************************************************)
NotCalled == [exc |-> "NotCalled"]

Idle ==
    /\ log = <<>>
    /\ request = NoRequest
    /\ response = NoResponse
    /\ escaped = "None"
    /\ log_entry = None
    /\ handled = 0

Init == Idle /\ arg = None /\ ret = NotCalled

do_POST ==
    /\ handled < MaxRequests
    /\ \E req \in PostRequests :
          LET out == Post(req, log, handled)
          IN  /\ request' = req
              /\ log' = out.log
              /\ response' = out.response
              /\ escaped' = out.escaped
              /\ log_entry' = out.log_entry
    /\ handled' = handled + 1
    /\ UNCHANGED <<arg, ret>>

do_OPTIONS ==
    /\ handled < MaxRequests
    /\ \E req \in OptionsRequests : request' = req
    /\ response' = OptionsResponse
    /\ escaped' = "None"
    /\ log_entry' = None
    /\ handled' = handled + 1
    /\ UNCHANGED <<log, arg, ret>>

Next == do_POST \/ do_OPTIONS

Spec == Init /\ [][Next]_vars

(***************************************************************************)
(* The normalizer and the formatter as functions of their argument.        *)
(***************************************************************************)
InitNormalize == Idle /\ arg \in NormalizeInputs /\ ret = NotCalled

CallNormalize ==
    /\ ret = NotCalled
    /\ ret' = Normalize(arg)
    /\ UNCHANGED <<log, request, response, escaped, log_entry, handled, arg>>

SpecNormalize == InitNormalize /\ [][CallNormalize]_vars

InitFormat == Idle /\ arg \in FormatInputs /\ ret = NotCalled

CallFormat ==
    /\ ret = NotCalled
    /\ ret' = format_log_entry(arg)
    /\ UNCHANGED <<log, request, response, escaped, log_entry, handled, arg>>

SpecFormat == InitFormat /\ [][CallFormat]_vars

(***************************************************************************)
(* Reading a block back: its lines, its event section headers and its      *)
(* TOTAL_EVENTS lines, as a log scanner finds them.                        *)
(***************************************************************************)
\* text.split('\n')
RECURSIVE Lines(_)
Lines(text) ==
    IF \A i \in 1..Len(text) : text[i] # NL THEN <<text>>
    ELSE LET i == CHOOSE k \in 1..Len(text) :
                     text[k] = NL /\ \A j \in 1..(k - 1) : text[j] # NL
         IN  <<SubSeq(text, 1, i - 1)>> \o Lines(SubSeq(text, i + 1, Len(text)))

Digits == {"0", "1", "2", "3", "4", "5", "6", "7", "8", "9"}

IsEventHeader(line) ==
    /\ Len(line) >= 3
    /\ line[1] = "EVENT_"
    /\ line[Len(line)] = ":"
    /\ \A k \in 2..(Len(line) - 1) : line[k] \in Digits

IsTotalLine(line) == Len(line) >= 1 /\ line[1] = "TOTAL_EVENTS: "

EventHeader(i) == <<"EVENT_">> \o IntStr(i) \o <<":">>

Called == ret.exc # "NotCalled"

IsTrackingPost(req) ==
    req.method = "POST" /\ req.path \in {"/api/analytics/events", "/analytics"}

Cors == <<"Access-Control-Allow-Origin", "*">>

\* C1: for every decoded JSON object the normalizer takes the first matching
\* branch: with a key events, the batch branch (events is the payload's events
\* value, whether or not type is present too); else with a key type, events is
\* [payload] and the ids are test_session and test_user whatever the payload's
\* ids; else events is [payload] and each id is the payload's or "unknown".
C1_BranchPriority ==
    (Called /\ TypeOf(arg) = "dict") =>
        IF HasKey(arg, "events")
        THEN ret.exc = "None" => ret.events = Item(arg, "events")
        ELSE IF HasKey(arg, "type")
        THEN /\ ret.exc = "None"
             /\ ret.events = List(<<arg>>)
             /\ ret.session_id = Str(<<"test_session">>)
             /\ ret.user_id = Str(<<"test_user">>)
        ELSE /\ ret.exc = "None"
             /\ ret.events = List(<<arg>>)
             /\ ret.session_id = (IF HasKey(arg, "sessionId") THEN Item(arg, "sessionId")
                                  ELSE Str(<<"unknown">>))
             /\ ret.user_id = (IF HasKey(arg, "userId") THEN Item(arg, "userId")
                               ELSE Str(<<"unknown">>))

\* a payload with both events and type went through the batch branch
C1_Witness ==
    /\ Called /\ TypeOf(arg) = "dict"
    /\ HasKey(arg, "events") /\ HasKey(arg, "type") /\ HasKey(arg, "sessionId")
    /\ ret.exc = "None"
    /\ ret.events = Item(arg, "events") /\ ret.events # List(<<arg>>)

\* C2: in the batch branch the batch's events are the input sequence in input
\* order; a non-empty sequence whose first element has sessionId S and userId U
\* gives sessionId S and userId U, whatever the later elements hold; the empty
\* sequence gives "unknown", "unknown" and no events.
C2_BatchIds ==
    (/\ Called /\ TypeOf(arg) = "dict" /\ HasKey(arg, "events")
     /\ TypeOf(Item(arg, "events")) = "list") =>
        LET seq == Item(arg, "events")[2]
        IN  /\ ret.exc = "None" => ret.events = List(seq)
            /\ seq = <<>> =>
                  /\ ret.exc = "None"
                  /\ ret.events = List(<<>>)
                  /\ ret.session_id = Str(<<"unknown">>)
                  /\ ret.user_id = Str(<<"unknown">>)
            /\ (/\ seq # <<>>
                /\ TypeOf(seq[1]) = "dict"
                /\ HasKey(seq[1], "sessionId")
                /\ HasKey(seq[1], "userId")) =>
                  /\ ret.exc = "None"
                  /\ ret.events = List(seq)
                  /\ ret.session_id = Item(seq[1], "sessionId")
                  /\ ret.user_id = Item(seq[1], "userId")

\* a batch of two events with different ids got the ids of the first
C2_Witness ==
    /\ Called /\ TypeOf(arg) = "dict" /\ HasKey(arg, "events")
    /\ Item(arg, "events") = List(<<EventS, EventT>>)
    /\ ret.exc = "None"
    /\ ret.session_id = Str(<<"S">>) /\ ret.user_id = Str(<<"U">>)
    /\ ret.events = List(<<EventS, EventT>>)

\* C3: for every batch with N events format_log_entry returns a block whose
\* TOTAL_EVENTS line carries N and whose event section headers are exactly
\* EVENT_1 .. EVENT_N, in that order.
C3_HeadersMatchTotal ==
    Called =>
        LET n == Len(Item(arg, "events")[2])
            lines == Lines(ret.val[2])
        IN  /\ ret.exc = "None"
            /\ SelectSeq(lines, IsTotalLine) = << <<"TOTAL_EVENTS: ">> \o IntStr(n) >>
            /\ SelectSeq(lines, IsEventHeader) = [i \in 1..n |-> EventHeader(i)]

\* C4: every step leaves the log as it was or appends, after its whole previous
\* contents, exactly the one formatted block of the request just handled.
C4_AppendOnly ==
    [][\/ log' = log
       \/ /\ TypeOf(log_entry') = "dict"
          /\ format_log_entry(log_entry').exc = "None"
          /\ log' = log \o format_log_entry(log_entry').val[2] \o <<NL>>]_vars

\* the second request handled appended its block after the first one's
C4_Witness ==
    /\ handled = 2
    /\ response.status = 200
    /\ TypeOf(log_entry) = "dict"
    /\ Len(Item(log_entry, "events")[2]) > 0
    /\ Len(log) > Len(format_log_entry(log_entry).val[2]) + 1
    /\ SubSeq(log, 1, RuleWidth + 3) = Repeat("=", RuleWidth) \o <<NL, "BATCH_TIMESTAMP: ", "T">>

\* C5: a POST to a tracking route whose body is not valid JSON is answered 400
\* and leaves the log as it was.
C5_InvalidJson400 ==
    [][(/\ IsTrackingPost(request')
        /\ request'.content_length = "numeric"
        /\ request'.body.kind # "json")
       => (response'.status = 400 /\ log' = log)]_vars

IsNonObjectPost(req) ==
    /\ IsTrackingPost(req)
    /\ req.content_length = "numeric"
    /\ req.body.kind = "json"
    /\ TypeOf(req.body.val) # "dict"

\* C6 as claimed: a POST to a tracking route whose body is valid JSON but not a
\* JSON object is answered 400 and nothing is written to the log.
C6_NonObject400 ==
    [][IsNonObjectPost(request') => (response'.status = 400 /\ log' = log)]_vars

\* C6 as amended: a POST to a tracking route whose body is valid JSON but not a
\* JSON object is answered 500 and nothing is written to the log.
C6_NonObject500 ==
    [][IsNonObjectPost(request') => (response'.status = 500 /\ log' = log)]_vars

\* a top-level array was answered 500 after an earlier request had written a block
C6_Witness ==
    /\ IsNonObjectPost(request)
    /\ TypeOf(request.body.val) = "list"
    /\ response.status = 500
    /\ log # <<>>

\* C7: when normalization and formatting succeed and the append fails with an
\* I/O error, the request is still answered 200 with the success body carrying
\* the batch's event count, and the log does not gain the block.
C7_WriteFailureSwallowed ==
    [][(/\ IsTrackingPost(request')
        /\ TypeOf(log_entry') = "dict"
        /\ format_log_entry(log_entry').exc = "None"
        /\ ~request'.io_ok)
       => (/\ response'.status = 200
           /\ response'.body =
                <<"{", "\"", "status", "\"", ": ", "\"", "success", "\"", ", ",
                  "\"", "message", "\"", ": ", "\"", "Successfully logged ">>
                    \o IntStr(Len(Item(log_entry', "events")[2]))
                    \o <<" events", "\"", "}">>
           /\ escaped' = "None"
           /\ log' = log)]_vars

\* a batch of two events met a failing append: 200, and the log stayed empty
C7_Witness ==
    /\ IsTrackingPost(request)
    /\ ~request.io_ok
    /\ TypeOf(log_entry) = "dict"
    /\ Item(log_entry, "events") = List(<<EventS, EventT>>)
    /\ response.status = 200
    /\ log = <<>>

\* C8: every response to a POST on a tracking route, the 200 as well as the 400
\* and the 500, carries Access-Control-Allow-Origin: *.
C8_CorsOnEveryResponse ==
    (IsTrackingPost(request) /\ response.status \in {200, 400, 500})
        => Cors \in response.headers

\* C9: a POST to any other path is answered 404 and leaves the log as it was,
\* whatever its body.
C9_OtherPath404 ==
    [][(request'.method = "POST"
          /\ request'.path \notin {"/api/analytics/events", "/analytics"})
       => (response'.status = 404 /\ log' = log)]_vars

\* a well-formed event posted to another path was answered 404, the log kept
C9_Witness ==
    /\ request.method = "POST"
    /\ request.path = "/unknown-path"
    /\ request.content_length = "numeric"
    /\ request.body.kind = "json"
    /\ response.status = 404
    /\ log # <<>>

\* C10: every POST to a tracking route, whatever its Content-Length header and
\* body, ends with one response of status 200, 400 or 500 and no exception
\* leaving do_POST; 200 only when decoding and normalization raised nothing,
\* 400 only on a JSON decode failure.
C10_AlwaysAnswered ==
    IsTrackingPost(request) =>
        /\ escaped = "None"
        /\ response.status \in {200, 400, 500}
        /\ response.status = 200 =>
              /\ Loads(request.body).exc = "None"
              /\ Normalize(Loads(request.body).val).exc = "None"
        /\ response.status = 400 => Loads(request.body).exc = "JSONDecodeError"

====
